---- MODULE Spec2Model ----
(***************************************************************************)
(* Model of the VM agent: the session recorder (session_recorder.py), the  *)
(* action executor, the control loop and main (main.py), and the replay    *)
(* compiler (compile_video.py).                                            *)
(*                                                                         *)
(* Python values are modelled as follows: str as a TLA+ string, None as    *)
(* the reserved string NULL, a float timestamp as an integer number of     *)
(* seconds, a list as a sequence, a file name as the flat sequence of its  *)
(* characters, a JSON document as a tagged value.                          *)
(***************************************************************************)
EXTENDS Integers, Sequences, FiniteSets, TLC

(* ---------------------------------------------------------------------- *)
(* Bounds of the model                                                     *)
(* ---------------------------------------------------------------------- *)

\* most recorder calls explored in the recorder-only specification
MaxOps == 6
\* frames already committed in the larger start state of the naming specification
PreFrames == 998
\* frames committed on top of the start state in the naming specification
MaxNew == 4
\* largest iteration budget (MAX_ITERATIONS) a process is started with
MaxBudget == 2
\* most tool uses in one oracle response
MaxBatch == 2
\* most tool uses requested, over all responses a process acts on
MaxActions == 2
\* most run_agent calls of a process
MaxInstances == 2
\* most tasks typed at the interactive prompt
MaxTasks == 1
\* most frames of a log handed to compile_video
MaxShots == 6

(* ---------------------------------------------------------------------- *)
(* Values                                                                  *)
(* ---------------------------------------------------------------------- *)

\* Python's None
NULL == "<None>"

\* reasoning texts and action descriptors handed to the recorder directly
Texts == {"think-a", "think-b"}
Descriptors == {"A", "B"}
Tasks == {"", "open the browser"}

\* wall-clock readings (seconds): 0 and 86400 are the same time of day on
\* two consecutive days, 86399 is the second before midnight
Clocks == {0, 86399, 86400}
\* the readings used where the time of day plays no part
RecClocks == {0, 86400}
\* the reading during a run of main: all its frames fall into one second
LoopClocks == {0}

(* ---------------------------------------------------------------------- *)
(* String formatting                                                       *)
(* ---------------------------------------------------------------------- *)

DigitChars == <<"0", "1", "2", "3", "4", "5", "6", "7", "8", "9">>

RECURSIVE Decimal(_)
\* str(n) for n >= 0: the decimal digits, most significant first
Decimal(n) ==
    IF n < 10 THEN <<DigitChars[n + 1]>>
    ELSE Decimal(n \div 10) \o <<DigitChars[(n % 10) + 1]>>

\* format(n, "0{w}d"): zero-padded to at least w characters, never cut
ZeroPad(n, w) ==
    LET s == Decimal(n)
    IN  IF Len(s) >= w THEN s ELSE [i \in 1..(w - Len(s)) |-> "0"] \o s

\* time.strftime("%H%M%S") at clock reading now
StrfHMS(now) ==
    LET sod == now % 86400
    IN  ZeroPad(sod \div 3600, 2) \o ZeroPad((sod % 3600) \div 60, 2)
            \o ZeroPad(sod % 60, 2)

ScreenshotPathMod1000(now, index) ==
    <<"screenshots", "/">> \o StrfHMS(now) \o <<"_">>
        \o ZeroPad(index % 1000, 3) \o <<".", "p", "n", "g">>

\* screenshot_dir / f"{timestamp}_{len(self.frames):03d}.png"
ScreenshotPath(now, index) ==
    <<"screenshots", "/">> \o StrfHMS(now) \o <<"_">>
        \o ZeroPad(index, 3) \o <<".", "p", "n", "g">>

(* ---------------------------------------------------------------------- *)
(* SessionRecorder                                                         *)
(* ---------------------------------------------------------------------- *)

\* Frame(timestamp, screenshot_path, actions, reasoning)
Frame(timestamp, screenshot_path, actions, reasoning) ==
    [timestamp |-> timestamp, screenshot_path |-> screenshot_path,
     actions |-> actions, reasoning |-> reasoning]

\* SessionRecorder(task=...): no frames, nothing pending
NewRecorder(task) ==
    [task |-> task, frames |-> <<>>,
     current_reasoning |-> NULL, pending_actions |-> <<>>]

set_reasoning_keep_first(self, text) ==
    [self EXCEPT !.current_reasoning =
        IF self.current_reasoning = NULL THEN text
        ELSE self.current_reasoning]

\* SessionRecorder.set_reasoning
set_reasoning(self, text) ==
    [self EXCEPT !.current_reasoning = text]

add_action_front(self, action) ==
    [self EXCEPT !.pending_actions = <<action>> \o self.pending_actions]

add_action_aliased(self, action) ==
    [self EXCEPT
        !.pending_actions = Append(self.pending_actions, action),
        !.frames = IF Len(self.frames) = 0 THEN self.frames
                   ELSE [self.frames EXCEPT ![Len(self.frames)].actions =
                            Append(self.frames[Len(self.frames)].actions, action)]]

\* SessionRecorder.add_action
add_action(self, action) ==
    [self EXCEPT !.pending_actions = Append(self.pending_actions, action)]

add_frame_keep_pending(self, now) ==
    [self EXCEPT
        !.frames = Append(self.frames,
            Frame(now, ScreenshotPath(now, Len(self.frames)),
                  self.pending_actions, self.current_reasoning))]

add_frame_cleared_alias(self, now) ==
    [self EXCEPT
        !.frames = Append(self.frames,
            Frame(now, ScreenshotPath(now, Len(self.frames)),
                  <<>>, self.current_reasoning)),
        !.current_reasoning = NULL,
        !.pending_actions = <<>>]

\* SessionRecorder.add_frame at clock reading now: the frame is appended and
\* the pending state cleared before the method returns
add_frame(self, now) ==
    [self EXCEPT
        !.frames = Append(self.frames,
            Frame(now, ScreenshotPath(now, Len(self.frames)),
                  self.pending_actions, self.current_reasoning)),
        !.current_reasoning = NULL,
        !.pending_actions = <<>>]

(* ---------------------------------------------------------------------- *)
(* The session log file (JSON)                                             *)
(* ---------------------------------------------------------------------- *)

JNull == [t |-> "null"]
JStr(s) == [t |-> "string", v |-> s]
JNum(n) == [t |-> "number", v |-> n]
JArr(items) == [t |-> "array", v |-> items]
JObj(members) == [t |-> "object", v |-> members]

\* no file at the path
NoFile == [t |-> "absent"]

\* json.dumps of an Optional[str]
JOptStr(x) == IF x = NULL THEN JNull ELSE JStr(x)

\* json.loads of a string or null
PyOptStr(j) == IF j.t = "null" THEN NULL ELSE j.v

\* dict.get(key, default) on a decoded JSON object
JGet(obj, key, default) ==
    IF key \in DOMAIN obj.v THEN obj.v[key] ELSE default

FrameToJson(f) ==
    JObj([timestamp |-> JNum(f.timestamp),
          screenshot |-> JStr(f.screenshot_path),
          actions |-> JArr([i \in 1..Len(f.actions) |-> JStr(f.actions[i])]),
          reasoning |-> JOptStr(f.reasoning)])

save_log_doc_reversed(self) ==
    JObj([task |-> JStr(self.task),
          frames |-> JArr([i \in 1..Len(self.frames) |->
                            FrameToJson(self.frames[Len(self.frames) + 1 - i])])])

\* SessionRecorder.save_log: the document written to the path
save_log_doc(self) ==
    JObj([task |-> JStr(self.task),
          frames |-> JArr([i \in 1..Len(self.frames) |->
                            FrameToJson(self.frames[i])])])

FrameFromJson(j) ==
    LET acts == JGet(j, "actions", JArr(<<>>)).v
    IN  Frame(j.v["timestamp"].v, j.v["screenshot"].v,
              [i \in 1..Len(acts) |-> acts[i].v],
              PyOptStr(JGet(j, "reasoning", JNull)))

load_log_no_reasoning(doc) ==
    LET fs == doc.v["frames"].v
    IN  [NewRecorder(JGet(doc, "task", JStr("")).v) EXCEPT
            !.frames = [i \in 1..Len(fs) |->
                [FrameFromJson(fs[i]) EXCEPT !.reasoning = NULL]]]

\* SessionRecorder.load_log on the document read from the path
load_log(doc) ==
    LET fs == doc.v["frames"].v
    IN  [NewRecorder(JGet(doc, "task", JStr("")).v) EXCEPT
            !.frames = [i \in 1..Len(fs) |-> FrameFromJson(fs[i])]]

(* ---------------------------------------------------------------------- *)
(* Tools and their execution (main.py)                                     *)
(* ---------------------------------------------------------------------- *)

\* {}: a dict without keys
EmptyDict == [k \in {} |-> NULL]

\* dict.get(key, default)
DictGet(d, key, default) == IF key \in DOMAIN d THEN d[key] ELSE default

\* truth value of an Optional[str]: None and "" are false
Truthy(x) == x # NULL /\ x # ""

Min(a, b) == IF a <= b THEN a ELSE b
Max(a, b) == IF a >= b THEN a ELSE b

\* the names of TOOLS
ToolNames ==
    {"screenshot", "move_mouse", "click", "type_text", "press_key",
     "ask_user", "wait"}

\* the tool uses an oracle response may hold: every name of TOOLS, a
\* move_mouse without its x, and a name that is not in TOOLS
ToolCalls ==
    {[name |-> "screenshot", input |-> EmptyDict],
     [name |-> "move_mouse", input |-> [x |-> 100, y |-> 200]],
     [name |-> "move_mouse", input |-> [y |-> 200]],
     [name |-> "click", input |-> EmptyDict],
     [name |-> "type_text", input |-> [text |-> "hi"]],
     [name |-> "press_key", input |-> [key |-> "Return"]],
     [name |-> "ask_user", input |-> [question |-> "password?"]],
     [name |-> "wait", input |-> [seconds |-> 45]],
     [name |-> "scroll", input |-> EmptyDict]}

\* of these, one tool use of each kind: one that commits a frame, one that
\* calls the Remote Control Surface, one that lacks an argument, one that
\* makes no external call that can fail, one with an unknown name
\* wait with seconds below zero, zero, in range, at the limit, above it, and
\* without seconds
WaitCalls ==
    {[name |-> "wait", input |-> [seconds |-> n]] : n \in {-5, 0, 17, 30, 31, 45}}
        \cup {[name |-> "wait", input |-> EmptyDict]}

CoreCalls ==
    {[name |-> "screenshot", input |-> EmptyDict],
     [name |-> "click", input |-> EmptyDict],
     [name |-> "move_mouse", input |-> [y |-> 200]],
     [name |-> "wait", input |-> [seconds |-> 45]],
     [name |-> "scroll", input |-> EmptyDict]}

\* how a call of the Remote Control Surface ends: it returns, it raises
\* VMError (_run), or it raises another exception (the SSH transport)
VmOutcomes == {"ok", "VMError", "Exception"}

\* format_action: the descriptor of a tool use; screenshot drops its arguments
format_action(name, args) ==
    IF name = "screenshot" THEN [call |-> "screenshot", args |-> EmptyDict]
    ELSE [call |-> name, args |-> args]

ToolCallUnknownClicks(name, args) ==
    CASE name = "screenshot" -> "vm.screenshot"
      [] name = "move_mouse" ->
            IF {"x", "y"} \subseteq DOMAIN args THEN "vm.move_mouse" ELSE "none"
      [] name = "type_text" ->
            IF "text" \in DOMAIN args THEN "vm.type_text" ELSE "none"
      [] name = "press_key" ->
            IF "key" \in DOMAIN args THEN "vm.press_key" ELSE "none"
      [] name = "ask_user" ->
            IF "question" \in DOMAIN args THEN "input" ELSE "none"
      [] name = "wait" -> "time.sleep"
      [] OTHER -> "vm.click"

\* execute_tool: the one external call the branch of the tool makes; "none"
\* when the name matches no branch or a required argument is missing (the
\* KeyError is raised before the call)
ToolCall(name, args) ==
    CASE name = "screenshot" -> "vm.screenshot"
      [] name = "move_mouse" ->
            IF {"x", "y"} \subseteq DOMAIN args THEN "vm.move_mouse" ELSE "none"
      [] name = "click" -> "vm.click"
      [] name = "type_text" ->
            IF "text" \in DOMAIN args THEN "vm.type_text" ELSE "none"
      [] name = "press_key" ->
            IF "key" \in DOMAIN args THEN "vm.press_key" ELSE "none"
      [] name = "ask_user" ->
            IF "question" \in DOMAIN args THEN "input" ELSE "none"
      [] name = "wait" -> "time.sleep"
      [] OTHER -> "none"

\* the call is a method of the Remote Control Surface
IsVm(call) ==
    call \in {"vm.screenshot", "vm.move_mouse", "vm.click", "vm.type_text",
              "vm.press_key"}

\* the ways an external call can end: input() raises EOFError on a closed
\* stdin, time.sleep returns
Outcomes(call) ==
    IF IsVm(call) THEN VmOutcomes
    ELSE IF call = "input" THEN {"ok", "Exception"}
    ELSE {"ok"}

\* an exception leaving the function instead of a returned value
Raised == [raised |-> TRUE]

FailureVMErrorEscapes(out) ==
    IF out = "VMError" THEN Raised
    ELSE [success |-> FALSE, error |-> "Unexpected error"]

FailureKeyErrorEscapes(out) ==
    IF out = "VMError" THEN [success |-> FALSE, error |-> "VMError"]
    ELSE IF out = "KeyError" THEN Raised
    ELSE [success |-> FALSE, error |-> "Unexpected error"]

\* execute_tool, its except clauses: the result for a VMError and for any
\* other exception (a KeyError of a missing argument included)
Failure(out) ==
    IF out = "VMError" THEN [success |-> FALSE, error |-> "VMError"]
    ELSE [success |-> FALSE, error |-> "Unexpected error"]

WaitSecsNoFloor(args) == Min(DictGet(args, "seconds", 1), 30)

\* execute_tool, wait: secs = max(0, min(args.get("seconds", 1), 30))
WaitSecs(args) == Max(0, Min(DictGet(args, "seconds", 1), 30))

UnknownToolRaises(name) == Raised

\* execute_tool, its else branch
UnknownTool(name) == [success |-> FALSE, error |-> <<"Unknown tool", name>>]

\* execute_tool: the value returned for tool name with arguments args when
\* its external call ends with out; png is what a screen capture returns
ToolResult(name, args, out, png) ==
    CASE name = "screenshot" ->
            IF out = "ok" THEN [success |-> TRUE, image |-> [b64 |-> png]]
            ELSE Failure(out)
      [] name = "move_mouse" ->
            IF ~({"x", "y"} \subseteq DOMAIN args) THEN Failure("KeyError")
            ELSE IF out = "ok"
                 THEN [success |-> TRUE, moved_to |-> <<args["x"], args["y"]>>]
                 ELSE Failure(out)
      [] name = "click" ->
            IF out = "ok" THEN [success |-> TRUE] ELSE Failure(out)
      [] name = "type_text" ->
            IF "text" \notin DOMAIN args THEN Failure("KeyError")
            ELSE IF out = "ok"
                 THEN [success |-> TRUE, chars |-> Len(args["text"])]
                 ELSE Failure(out)
      [] name = "press_key" ->
            IF "key" \notin DOMAIN args THEN Failure("KeyError")
            ELSE IF out = "ok" THEN [success |-> TRUE, key |-> args["key"]]
                 ELSE Failure(out)
      [] name = "ask_user" ->
            IF "question" \notin DOMAIN args THEN Failure("KeyError")
            ELSE IF out = "ok" THEN [success |-> TRUE, user_said |-> "yes"]
                 ELSE Failure(out)
      [] name = "wait" ->
            [success |-> TRUE, waited |-> WaitSecs(args)]
      [] OTHER -> UnknownTool(name)

ToolCommitsBeforeCapture(name, out, has_rec) ==
    name = "screenshot" /\ has_rec

\* execute_tool commits a frame: a screenshot whose capture returned, with a
\* recorder attached
ToolCommits(name, out, has_rec) ==
    name = "screenshot" /\ out = "ok" /\ has_rec

execute_tool_returns_path(name, args, out, png, has_rec) ==
    IF ToolCommits(name, out, has_rec)
    THEN [success |-> TRUE, image |-> [b64 |-> png],
          filepath |-> <<"screenshots", png>>]
    ELSE ToolResult(name, args, out, png)

\* execute_tool(vm, name, args, recorder): the value returned; the recorder
\* passed in is used for add_frame only and no part of the result
execute_tool(name, args, out, png, has_rec) ==
    ToolResult(name, args, out, png)

(* ---------------------------------------------------------------------- *)
(* Conversation history (main.py, run_agent)                               *)
(* ---------------------------------------------------------------------- *)

TextBlock(text) == [type |-> "text", text |-> text]

ToolUseBlock(id, call) ==
    [type |-> "tool_use", id |-> id, name |-> call.name, input |-> call.input]

ImageBlock(png) == [type |-> "image", data |-> [b64 |-> png]]

InitialTextNoHandoff(task, handoff_context) == [task |-> task]

\* the prompt text: the task, and the handoff of the previous instance when
\* one is given
InitialText(task, handoff_context) ==
    IF Truthy(handoff_context)
    THEN [task |-> task, handoff |-> handoff_context]
    ELSE [task |-> task]

\* messages as run_agent first builds it
InitialMessage(png, task, handoff_context) ==
    [role |-> "user",
     content |-> <<ImageBlock(png),
                   TextBlock(InitialText(task, handoff_context))>>]

\* [b for b in response.content if b.type == "tool_use"]
ToolUses(content) == SelectSeq(content, LAMBDA b : b.type = "tool_use")

\* the non-empty texts of the text blocks of response.content
ReasoningText(content) ==
    LET blocks == SelectSeq(content,
                      LAMBDA b : b.type = "text" /\ b.text # "")
    IN  [i \in 1..Len(blocks) |-> blocks[i].text]

RECURSIVE JoinSpace(_)
\* " ".join(texts)
JoinSpace(texts) ==
    IF Len(texts) = 0 THEN ""
    ELSE IF Len(texts) = 1 THEN texts[1]
    ELSE texts[1] \o " " \o JoinSpace(Tail(texts))

TaskDoneOnlyEndTurn(stop_reason, tool_uses) ==
    stop_reason = "end_turn"

\* run_agent returns None on this response: stop reason end_turn, or no
\* tool use in it
TaskDone(stop_reason, tool_uses) ==
    stop_reason = "end_turn" \/ Len(tool_uses) = 0

InBudgetInclusive(iteration, limit) == iteration <= limit

InBudgetOneLess(iteration, limit) == iteration < limit - 1

\* for iteration in range(MAX_ITERATIONS): another round is run
InBudget(iteration, limit) == iteration < limit

ToolResultBlockFirstId(tool, result) ==
    IF tool.name = "screenshot" /\ DictGet(result, "success", FALSE)
    THEN [type |-> "tool_result", tool_use_id |-> <<tool.id[1], 1>>,
          content |-> <<[type |-> "image", data |-> result.image]>>]
    ELSE [type |-> "tool_result", tool_use_id |-> <<tool.id[1], 1>>,
          content |-> [json |-> result]]

\* the tool_result block appended for a tool use and its result
ToolResultBlock(tool, result) ==
    IF tool.name = "screenshot" /\ DictGet(result, "success", FALSE)
    THEN [type |-> "tool_result", tool_use_id |-> tool.id,
          content |-> <<[type |-> "image", data |-> result.image]>>]
    ELSE [type |-> "tool_result", tool_use_id |-> tool.id,
          content |-> [json |-> result]]

\* generate_handoff: the request for a summary, one more user message
HandoffRequest ==
    [role |-> "user", content |-> "Generate a concise HANDOFF SUMMARY"]

HandoffMessagesOnlyRequest(history) == <<HandoffRequest>>

\* generate_handoff: messages + handoff_request, the history of its query
HandoffMessages(history) == Append(history, HandoffRequest)

HandoffTextEmpty(text) == text

\* generate_handoff: the first non-empty text of the response, or the
\* fixed fallback
HandoffText(text) ==
    IF text # "" THEN text ELSE "No handoff summary generated."

(* ---------------------------------------------------------------------- *)
(* State                                                                   *)
(* ---------------------------------------------------------------------- *)

VARIABLES
    recorder,          \* the SessionRecorder object
    log_file,          \* content of the session log file, or NoFile
    loaded,            \* the recorder load_log returned, or NotLoaded
    since_actions,     \* descriptors passed to add_action since the last add_frame
    since_reasonings,  \* texts passed to set_reasoning since the last add_frame
    frame_inputs,      \* per committed frame: what was passed before its commit
    saved,             \* the recorder as it was at the last save_log, or NotLoaded
    last_op,           \* the most recent recorder call
    prev_op,           \* the recorder call before it
    ops,               \* number of recorder calls made
    mode,              \* "task" (--task given) or "interactive"
    has_recorder,      \* a recorder is attached (--save-log or --record-video)
    max_iterations,    \* MAX_ITERATIONS of this process
    pc,                \* where main and run_agent stand
    task,              \* the task of the running loop instance
    handoff_context,   \* the handoff_context argument of run_agent
    messages,          \* run_agent's conversation history
    iteration,         \* run_agent's loop counter
    tool_uses,         \* the tool uses of the response being processed
    tool_idx,          \* index of the next tool use to execute
    tool_results,      \* results of the tool uses executed in this round
    ret,               \* what run_agent returned
    captures,          \* screen captures the Remote Control Surface returned
    connected,         \* the SSH connection is open
    crashed,           \* an exception left main
    instances,         \* run_agent calls of this process
    requested,         \* tool uses requested by the responses acted on
    queries,           \* oracle queries of the running loop instance
    tasks_read,        \* tasks typed at the interactive prompt
    oracle_calls,      \* the tool uses the oracle draws its responses from
    done_since,        \* descriptors of the actions that succeeded since the last commit
    frame_done,        \* per committed frame: done_since at its commit
    interrupted,       \* the interactive prompt was interrupted (Ctrl+C)
    first_run,         \* what an earlier run of the loop got and did, or NoRun
    events,            \* what the running loop instance did, in order
    HAS_PIL,           \* compile_video.py: the image library was imported
    has_ffmpeg,        \* "ffmpeg -version" runs
    disk,              \* the screenshot files that exist when compile_video runs
    tmpdir,            \* the annotated images written to the temporary directory
    warnings,          \* the screenshot paths compile_video warned about
    encoder_ran,       \* the encoder was invoked
    encoder_input,     \* the images the encoder read, in order
    cv_pc,             \* where compile_video stands
    cv_i,              \* compile_video's loop index
    cv_ret             \* what compile_video returned

recVars == <<recorder, log_file, loaded, since_actions, since_reasonings,
             frame_inputs, saved, last_op, prev_op, ops>>

loopVars == <<mode, has_recorder, max_iterations, pc, task, handoff_context,
              messages, iteration, tool_uses, tool_idx, tool_results, ret,
              captures, connected, crashed, instances, requested,
              queries, tasks_read, oracle_calls, done_since, frame_done,
              interrupted, first_run, events>>

cvVars == <<HAS_PIL, has_ffmpeg, disk, tmpdir, warnings, encoder_ran,
            encoder_input, cv_pc, cv_i, cv_ret>>

vars == <<recVars, loopVars, cvVars>>

\* no earlier run is being repeated
NoRun == [done |-> FALSE]

\* run_agent has not been called: the state main starts from
LoopIdle ==
    /\ pc = "main"
    /\ task = NULL
    /\ handoff_context = NULL
    /\ messages = <<>>
    /\ iteration = 0
    /\ tool_uses = <<>>
    /\ tool_idx = 1
    /\ tool_results = <<>>
    /\ ret = NULL
    /\ captures = 0
    /\ connected = TRUE
    /\ crashed = FALSE
    /\ instances = 0
    /\ requested = 0
    /\ queries = 0
    /\ tasks_read = 0
    /\ done_since = <<>>
    /\ frame_done = <<>>
    /\ interrupted = FALSE
    /\ first_run = NoRun
    /\ events = <<>>

\* compile_video is not run
CvIdle ==
    /\ HAS_PIL = TRUE
    /\ has_ffmpeg = TRUE
    /\ disk = {}
    /\ tmpdir = {}
    /\ warnings = <<>>
    /\ encoder_ran = FALSE
    /\ encoder_input = <<>>
    /\ cv_pc = "idle"
    /\ cv_i = 0
    /\ cv_ret = NULL

\* an earlier run is being repeated: the oracle and the Remote Control
\* Surface answer as they did in it
Replaying == first_run # NoRun

\* what they answered next in the earlier run, when it went on that far
HasInput == Len(events) < Len(first_run.events)
NextInput == first_run.events[Len(events) + 1]

\* the recorder used on its own, outside main
Standalone ==
    /\ CvIdle
    /\ oracle_calls = {}
    /\ mode = "task"
    /\ has_recorder = TRUE
    /\ max_iterations = 1
    /\ LoopIdle

NotLoaded == [ok |-> FALSE]

(* ---------------------------------------------------------------------- *)
(* The recorder driven call by call                                       *)
(* ---------------------------------------------------------------------- *)

Called(op) ==
    /\ prev_op' = last_op
    /\ last_op' = op
    /\ ops' = ops + 1

\* bookkeeping of a commit: what had been passed since the previous one
Committed ==
    /\ frame_inputs' = Append(frame_inputs,
            [actions |-> since_actions, reasonings |-> since_reasonings])
    /\ since_actions' = <<>>
    /\ since_reasonings' = <<>>

RecInit ==
    /\ Standalone
    /\ recorder \in {NewRecorder(t) : t \in Tasks}
    /\ log_file = NoFile
    /\ loaded = NotLoaded
    /\ since_actions = <<>>
    /\ since_reasonings = <<>>
    /\ frame_inputs = <<>>
    /\ saved = NotLoaded
    /\ last_op = "init"
    /\ prev_op = "init"
    /\ ops = 0

RecSetReasoning ==
    /\ ops < MaxOps
    /\ \E text \in Texts :
        /\ recorder' = set_reasoning(recorder, text)
        /\ since_reasonings' = Append(since_reasonings, text)
    /\ Called("set_reasoning")
    /\ UNCHANGED <<log_file, loaded, since_actions, frame_inputs, saved, loopVars, cvVars>>

RecAddAction ==
    /\ ops < MaxOps
    /\ \E action \in Descriptors :
        /\ recorder' = add_action(recorder, action)
        /\ since_actions' = Append(since_actions, action)
    /\ Called("add_action")
    /\ UNCHANGED <<log_file, loaded, since_reasonings, frame_inputs, saved, loopVars, cvVars>>

RecAddFrame ==
    /\ ops < MaxOps
    /\ \E now \in RecClocks : recorder' = add_frame(recorder, now)
    /\ Committed
    /\ Called("add_frame")
    /\ UNCHANGED <<log_file, loaded, saved, loopVars, cvVars>>

RecSaveLog ==
    /\ ops < MaxOps
    /\ log_file' = save_log_doc(recorder)
    /\ saved' = [ok |-> TRUE, rec |-> recorder]
    /\ Called("save_log")
    /\ UNCHANGED <<recorder, loaded, since_actions, since_reasonings, frame_inputs, loopVars, cvVars>>

RecLoadLog ==
    /\ ops < MaxOps
    /\ log_file # NoFile
    /\ loaded' = [ok |-> TRUE, rec |-> load_log(log_file)]
    /\ Called("load_log")
    /\ UNCHANGED <<recorder, log_file, since_actions, since_reasonings,
                   frame_inputs, saved, loopVars, cvVars>>

RecNext ==
    \/ RecSetReasoning
    \/ RecAddAction
    \/ RecAddFrame
    \/ RecSaveLog
    \/ RecLoadLog

SpecRec == RecInit /\ [][RecNext]_vars

(* ---------------------------------------------------------------------- *)
(* Screenshot naming: commits on top of a recorder that already holds      *)
(* none or many frames                                                     *)
(* ---------------------------------------------------------------------- *)

\* the recorder after k add_frame calls on a new recorder, all at clock
\* reading now and with nothing pending
CommitAll(now, k) ==
    [NewRecorder("") EXCEPT
        !.frames = [i \in 1..k |->
            Frame(now, ScreenshotPath(now, i - 1), <<>>, NULL)]]

NamingInit ==
    /\ Standalone
    /\ \E now \in Clocks, k \in {0, PreFrames} :
        /\ recorder = CommitAll(now, k)
        /\ frame_inputs = [i \in 1..k |-> [actions |-> <<>>, reasonings |-> <<>>]]
    /\ log_file = NoFile
    /\ loaded = NotLoaded
    /\ since_actions = <<>>
    /\ since_reasonings = <<>>
    /\ saved = NotLoaded
    /\ last_op = "init"
    /\ prev_op = "init"
    /\ ops = 0

NamingAddFrame ==
    /\ ops < MaxNew
    /\ \E now \in Clocks : recorder' = add_frame(recorder, now)
    /\ Committed
    /\ Called("add_frame")
    /\ UNCHANGED <<log_file, loaded, saved, loopVars, cvVars>>

NamingNext == NamingAddFrame

SpecNaming == NamingInit /\ [][NamingNext]_vars

(* ---------------------------------------------------------------------- *)
(* main and run_agent                                                      *)
(* ---------------------------------------------------------------------- *)

\* the task given with --task
ArgTask == "open the browser"
\* a task typed at the interactive prompt
TypedTask == "check the mail"

\* the stop reasons of the oracle's responses
StopReasons == {"end_turn", "tool_use", "max_tokens"}

\* the batches of at most n tool uses
Batches(calls, n) == UNION {[1..k -> calls] : k \in 0..n}

\* the recorder's own bookkeeping plays no part in main
recGhost == <<loaded, since_actions, since_reasonings, frame_inputs, saved,
              last_op, prev_op, ops>>

\* the state main starts from, before its first run_agent call
MainInit ==
    /\ CvIdle
    /\ mode \in {"task", "interactive"}
    /\ has_recorder \in BOOLEAN
    /\ LoopIdle
    /\ recorder = NewRecorder("")
    /\ log_file = NoFile
    /\ loaded = NotLoaded
    /\ since_actions = <<>>
    /\ since_reasonings = <<>>
    /\ frame_inputs = <<>>
    /\ saved = NotLoaded
    /\ last_op = "init"
    /\ prev_op = "init"
    /\ ops = 0

\* any budget, the oracle requesting the tool uses of CoreCalls
Init ==
    /\ MainInit
    /\ max_iterations \in 1..MaxBudget
    /\ oracle_calls = CoreCalls

\* a budget of one round, the oracle requesting any tool use of ToolCalls
ToolsInit ==
    /\ MainInit
    /\ max_iterations = 1
    /\ oracle_calls = ToolCalls

CrashSkipsFinally ==
    /\ pc' = "done"
    /\ crashed' = TRUE

\* an exception leaves run_agent and main's try block: the finally clause
\* runs and the process ends with the error
Crash ==
    /\ pc' = "finally"
    /\ crashed' = TRUE

InterruptEscapes ==
    /\ Crash
    /\ interrupted' = TRUE

\* except KeyboardInterrupt: the interrupt is caught, main leaves its try
\* block without an error and the finally clause runs
Interrupt ==
    /\ pc' = "finally"
    /\ interrupted' = TRUE
    /\ UNCHANGED crashed

\* main, --task given: the first run_agent call
MainTask ==
    /\ pc = "main"
    /\ mode = "task"
    /\ task' = ArgTask
    /\ handoff_context' = NULL
    /\ pc' = "call"
    /\ UNCHANGED <<recVars, mode, has_recorder, max_iterations, messages,
                   iteration, tool_uses, tool_idx, tool_results, ret, captures,
                   connected, crashed, instances, requested,
                   queries, tasks_read, oracle_calls, first_run, cvVars, interrupted,
                   done_since, frame_done, events>>

\* main, interactive mode: the prompt is reached
MainInteractive ==
    /\ pc = "main"
    /\ mode = "interactive"
    /\ pc' = "read_task"
    /\ UNCHANGED <<recVars, mode, has_recorder, max_iterations, task,
                   handoff_context, messages, iteration, tool_uses, tool_idx,
                   tool_results, ret, captures, connected, crashed,
                   instances, requested, queries, tasks_read, oracle_calls, first_run, cvVars, interrupted,
                   done_since, frame_done, events>>

\* main, interactive mode: input("> ") returns a task, or is interrupted
\* (KeyboardInterrupt is caught and the finally clause runs), or raises
\* EOFError (not caught)
ReadTask ==
    /\ pc = "read_task"
    /\ \/ /\ tasks_read < MaxTasks
          /\ instances < MaxInstances
          /\ tasks_read' = tasks_read + 1
          /\ task' = TypedTask
          /\ handoff_context' = NULL
          /\ pc' = "call"
          /\ UNCHANGED <<crashed, interrupted>>
       \/ /\ Interrupt
          /\ UNCHANGED <<task, handoff_context, tasks_read>>
       \/ /\ Crash
          /\ UNCHANGED <<task, handoff_context, tasks_read, interrupted>>
    /\ UNCHANGED <<recVars, mode, has_recorder, max_iterations, messages,
                   iteration, tool_uses, tool_idx, tool_results, ret, captures,
                   connected, instances, requested, queries, oracle_calls, first_run, cvVars,
                   done_since, frame_done,
                   events>>

\* run_agent up to its loop: the initial screenshot, its frame, the first
\* message. A VMError of the capture makes run_agent return None; any other
\* exception leaves run_agent.
StartAgent ==
    /\ pc = "call"
    /\ instances < MaxInstances
    /\ instances' = instances + 1
    /\ iteration' = 0
    /\ queries' = 0
    /\ tool_uses' = <<>>
    /\ tool_idx' = 1
    /\ tool_results' = <<>>
    /\ \E out \in VmOutcomes :
        /\ Replaying => out = first_run.events[1].out
        /\ events' = <<[e |-> "capture", out |-> out, task |-> task,
                         handoff_context |-> handoff_context]>>
        /\ \/ /\ out = "ok"
              /\ captures' = captures + 1
              /\ \E now \in LoopClocks :
                    recorder' = IF has_recorder THEN add_frame(recorder, now)
                                ELSE recorder
              /\ messages' =
                    <<InitialMessage(captures + 1, task, handoff_context)>>
              /\ pc' = "query"
              /\ IF has_recorder
                 THEN /\ frame_done' = Append(frame_done, done_since)
                      /\ done_since' = <<>>
                 ELSE UNCHANGED <<done_since, frame_done>>
              /\ UNCHANGED <<ret, crashed>>
           \/ /\ out = "VMError"
              /\ ret' = NULL
              /\ pc' = "returned"
              /\ messages' = <<>>
              /\ UNCHANGED <<recorder, captures, crashed, done_since,
                             frame_done>>
           \/ /\ out = "Exception"
              /\ Crash
              /\ messages' = <<>>
              /\ UNCHANGED <<recorder, captures, ret, done_since, frame_done>>
    /\ UNCHANGED <<log_file, recGhost, mode, has_recorder, max_iterations, task,
                   handoff_context, connected, requested, tasks_read,
                   oracle_calls, first_run, cvVars, interrupted>>

\* one action-decision query and what run_agent does with the response up
\* to its first tool use: the reasoning is set, then either run_agent returns
\* None or the response is appended to the history. The call may raise.
OracleQuery ==
    /\ pc = "query"
    /\ InBudget(iteration, max_iterations)
    /\ queries' = queries + 1
    /\ \/ /\ Replaying => HasInput /\ NextInput.e = "decision_error"
          /\ events' = Append(events, [e |-> "decision_error"])
          /\ Crash
          /\ UNCHANGED <<recorder, messages, tool_uses, tool_idx, tool_results,
                         ret, requested>>
       \/ \E has_text \in BOOLEAN, stop \in StopReasons,
             batch \in Batches(oracle_calls, MaxBatch) :
            LET content ==
                    (IF has_text
                     THEN <<TextBlock("thought " \o ToString(queries + 1))>>
                     ELSE <<>>)
                    \o [i \in 1..Len(batch) |->
                            ToolUseBlock(<<queries + 1, i>>, batch[i])]
                uses == ToolUses(content)
                reasoning_text == ReasoningText(content)
            IN  /\ Replaying =>
                        /\ HasInput
                        /\ NextInput.e = "decision"
                        /\ NextInput.stop_reason = stop
                        /\ NextInput.actions = Len(batch)
                        /\ ~TaskDone(stop, uses) =>
                            first_run.messages[2 * (queries + 1)].content
                                = content
                /\ (stop = "tool_use") => Len(batch) > 0
                /\ (stop = "max_tokens") => Len(batch) = 0
                /\ ~TaskDone(stop, uses) => requested + Len(uses) <= MaxActions
                /\ events' = Append(events,
                        [e |-> "decision", stop_reason |-> stop,
                         actions |-> Len(batch), history |-> messages])
                /\ recorder' =
                        IF has_recorder /\ Len(reasoning_text) > 0
                        THEN set_reasoning(recorder, JoinSpace(reasoning_text))
                        ELSE recorder
                /\ IF TaskDone(stop, uses)
                   THEN /\ ret' = NULL
                        /\ pc' = "returned"
                        /\ UNCHANGED <<messages, tool_uses, tool_idx,
                                       tool_results, requested>>
                   ELSE /\ messages' = Append(messages,
                                [role |-> "assistant", content |-> content])
                        /\ tool_uses' = uses
                        /\ tool_idx' = 1
                        /\ tool_results' = <<>>
                        /\ requested' = requested + Len(uses)
                        /\ pc' = "exec"
                        /\ UNCHANGED ret
                /\ UNCHANGED crashed
    /\ UNCHANGED <<log_file, recGhost, mode, has_recorder, max_iterations, task,
                   handoff_context, iteration, captures, connected,
                   instances, tasks_read, oracle_calls, first_run, cvVars, interrupted,
                   done_since, frame_done>>

\* one pass of "for tool in tool_uses": the action is recorded, executed and
\* its result kept. An exception leaving execute_tool leaves run_agent.
ExecTool ==
    /\ pc = "exec"
    /\ tool_idx <= Len(tool_uses)
    /\ LET tool == tool_uses[tool_idx]
           call == ToolCall(tool.name, tool.input)
           noted == IF has_recorder /\ tool.name # "screenshot"
                    THEN add_action(recorder,
                                    format_action(tool.name, tool.input))
                    ELSE recorder
       IN  \E out \in Outcomes(call) :
            LET result == execute_tool(tool.name, tool.input, out,
                                       captures + 1, has_recorder)
                commits == ToolCommits(tool.name, out, has_recorder)
            IN  /\ Replaying =>
                        /\ HasInput
                        /\ NextInput.e = "exec"
                        /\ NextInput.out = out
                /\ \E now \in LoopClocks :
                        recorder' = IF commits THEN add_frame(noted, now)
                                    ELSE noted
                /\ captures' = IF call = "vm.screenshot" /\ out = "ok"
                               THEN captures + 1 ELSE captures
                /\ LET done == IF /\ has_recorder
                                  /\ tool.name # "screenshot"
                                  /\ DictGet(result, "success", FALSE)
                               THEN Append(done_since,
                                        format_action(tool.name, tool.input))
                               ELSE done_since
                   IN  IF commits
                       THEN /\ frame_done' = Append(frame_done, done)
                            /\ done_since' = <<>>
                       ELSE /\ done_since' = done
                            /\ UNCHANGED frame_done
                /\ events' = Append(events,
                        [e |-> "exec", tool |-> tool, out |-> out,
                         result |-> result,
                         call |-> call,
                         slept |-> IF call = "time.sleep"
                                   THEN WaitSecs(tool.input) ELSE 0,
                         frames |-> Len(recorder'.frames) - Len(recorder.frames)])
                /\ IF result = Raised
                   THEN /\ Crash
                        /\ UNCHANGED <<tool_idx, tool_results>>
                   ELSE /\ tool_results' = Append(tool_results,
                                ToolResultBlock(tool, result))
                        /\ tool_idx' = tool_idx + 1
                        /\ UNCHANGED <<pc, crashed>>
    /\ UNCHANGED <<log_file, recGhost, mode, has_recorder, max_iterations, task,
                   handoff_context, messages, iteration, tool_uses, ret,
                   connected, instances, requested, queries, tasks_read, oracle_calls, first_run, cvVars, interrupted>>

\* the end of a round: the results become the next message of the history
EndRound ==
    /\ pc = "exec"
    /\ tool_idx > Len(tool_uses)
    /\ messages' = Append(messages, [role |-> "user", content |-> tool_results])
    /\ iteration' = iteration + 1
    /\ pc' = "query"
    /\ UNCHANGED <<recVars, mode, has_recorder, max_iterations, task,
                   handoff_context, tool_uses, tool_idx, tool_results, ret,
                   captures, connected, crashed, instances,
                   requested, queries, tasks_read, oracle_calls, first_run, cvVars, interrupted,
                   done_since, frame_done, events>>

\* the iteration limit is hit: generate_handoff queries the oracle once more
\* and run_agent returns its text. The call may raise.
Handoff ==
    /\ pc = "query"
    /\ ~InBudget(iteration, max_iterations)
    /\ queries' = queries + 1
    /\ \/ /\ Replaying => HasInput /\ NextInput.e = "summary_error"
          /\ events' = Append(events, [e |-> "summary_error"])
          /\ Crash
          /\ UNCHANGED ret
       \/ \E text \in {"", "summary " \o ToString(queries + 1)} :
            /\ Replaying =>
                /\ HasInput
                /\ NextInput.e = "summary"
                /\ NextInput.text = text
            /\ events' = Append(events,
                    [e |-> "summary", history |-> HandoffMessages(messages),
                     text |-> text])
            /\ ret' = HandoffText(text)
            /\ pc' = "returned"
            /\ UNCHANGED crashed
    /\ UNCHANGED <<recVars, mode, has_recorder, max_iterations, task,
                   handoff_context, messages, iteration, tool_uses, tool_idx,
                   tool_results, captures, connected, instances,
                   requested, tasks_read, oracle_calls, first_run, cvVars, interrupted,
                   done_since, frame_done>>

\* main after run_agent returned: "while handoff" starts the next instance,
\* otherwise the one-shot mode ends and the interactive mode prompts again
Returned ==
    /\ pc = "returned"
    /\ IF Truthy(ret)
       THEN /\ handoff_context' = ret
            /\ pc' = "call"
       ELSE /\ pc' = IF mode = "task" THEN "finally" ELSE "read_task"
            /\ UNCHANGED handoff_context
    /\ UNCHANGED <<recVars, mode, has_recorder, max_iterations, task, messages,
                   iteration, tool_uses, tool_idx, tool_results, ret, captures,
                   connected, crashed, instances, requested,
                   queries, tasks_read, oracle_calls, first_run, cvVars, interrupted,
                   done_since, frame_done, events>>

\* main's finally clause, its first part: the log is saved when a recorder
\* holds frames
Finally ==
    /\ pc = "finally"
    /\ IF has_recorder /\ Len(recorder.frames) > 0
       THEN /\ recorder' = [recorder EXCEPT !.task =
                    IF mode = "task" THEN ArgTask ELSE "interactive session"]
            /\ log_file' = save_log_doc(recorder')
       ELSE UNCHANGED <<recorder, log_file>>
    /\ pc' = "disconnect"
    /\ UNCHANGED <<recGhost, mode, has_recorder, max_iterations, task,
                   handoff_context, messages, iteration, tool_uses, tool_idx,
                   tool_results, ret, captures, connected, crashed, instances,
                   requested, queries, tasks_read, oracle_calls, first_run, cvVars, interrupted,
                   done_since, frame_done, events>>

\* main's finally clause, its last statement: vm.disconnect(); the process
\* ends
Disconnect ==
    /\ pc = "disconnect"
    /\ connected' = FALSE
    /\ pc' = "done"
    /\ UNCHANGED <<recVars, mode, has_recorder, max_iterations, task,
                   handoff_context, messages, iteration, tool_uses, tool_idx,
                   tool_results, ret, captures, crashed, instances,
                   requested, queries, tasks_read, oracle_calls, first_run, cvVars, interrupted,
                   done_since, frame_done, events>>

Next ==
    \/ MainTask
    \/ MainInteractive
    \/ ReadTask
    \/ StartAgent
    \/ OracleQuery
    \/ ExecTool
    \/ EndRound
    \/ Handoff
    \/ Returned
    \/ Finally
    \/ Disconnect

Spec == Init /\ [][Next]_vars

SpecTools == ToolsInit /\ [][Next]_vars

\* a budget of one round, the oracle requesting waits of any length
WaitInit ==
    /\ MainInit
    /\ max_iterations = 1
    /\ oracle_calls = WaitCalls

SpecWait == WaitInit /\ [][Next]_vars

\* run_agent(vm, task, recorder=...) against run_agent(vm, task): once the
\* instance that was given a recorder has returned or raised, what the
\* oracle and the Remote Control Surface answered is kept and the same call
\* is made again with recorder=None
Replay ==
    /\ first_run = NoRun
    /\ pc \in {"returned", "finally"}
    /\ first_run' = [done |-> TRUE, events |-> events, messages |-> messages,
                     ret |-> ret, crashed |-> crashed, pc |-> pc]
    /\ has_recorder' = FALSE
    /\ recorder' = NewRecorder("")
    /\ since_actions' = <<>>
    /\ since_reasonings' = <<>>
    /\ frame_inputs' = <<>>
    /\ last_op' = "init"
    /\ prev_op' = "init"
    /\ ops' = 0
    /\ pc' = "call"
    /\ messages' = <<>>
    /\ iteration' = 0
    /\ tool_uses' = <<>>
    /\ tool_idx' = 1
    /\ tool_results' = <<>>
    /\ ret' = NULL
    /\ captures' = 0
    /\ crashed' = FALSE
    /\ instances' = 0
    /\ requested' = 0
    /\ queries' = 0
    /\ done_since' = <<>>
    /\ frame_done' = <<>>
    /\ events' = <<>>
    /\ UNCHANGED <<log_file, loaded, saved, mode, max_iterations, task,
                   handoff_context, connected, tasks_read, oracle_calls,
                   interrupted, cvVars>>

\* one task given on the command line to an instance with a recorder
PairInit ==
    /\ MainInit
    /\ mode = "task"
    /\ has_recorder
    /\ max_iterations \in 1..MaxBudget
    /\ oracle_calls = CoreCalls

PairNext ==
    \/ MainTask
    \/ StartAgent
    \/ OracleQuery
    \/ ExecTool
    \/ EndRound
    \/ Handoff
    \/ Replay

SpecPair == PairInit /\ [][PairNext]_vars

(* ---------------------------------------------------------------------- *)
(* compile_video (compile_video.py)                                        *)
(* ---------------------------------------------------------------------- *)

\* tmpdir / f"frame_{i:05d}.png", and the name the encoder makes from its
\* pattern frame_%05d.png for the number i
FrameName(i) == <<"frame_">> \o ZeroPad(i, 5) \o <<".", "p", "n", "g">>

\* the encoder's image sequence input, no -start_number given: the number of
\* the first image is looked for in 0 .. StartNumberRange - 1
StartNumberRange == 5

\* the images the encoder reads from the directory dir for the pattern given
\* with -i: the first image is the one with the least number in the start
\* range, the next ones have the following numbers, up to the first number
\* without a file; most is a number no file reaches
EncoderInput(dir, most) ==
    LET firsts == {n \in 0..(StartNumberRange - 1) : FrameName(n) \in dir}
    IN  IF firsts = {} THEN <<>>
        ELSE LET first == CHOOSE n \in firsts : \A m \in firsts : n <= m
                 stop == CHOOSE n \in (first + 1)..(most + 1) :
                            /\ FrameName(n) \notin dir
                            /\ \A m \in first..(n - 1) : FrameName(m) \in dir
             IN  [j \in 1..(stop - first) |-> FrameName(first + j - 1)]

\* a log of k frames is on disk, and any of its screenshot files may be gone
CompileInit ==
    /\ oracle_calls = {}
    /\ mode = "task"
    /\ has_recorder = TRUE
    /\ max_iterations = 1
    /\ LoopIdle
    /\ \E k \in 0..MaxShots :
        /\ recorder = CommitAll(0, k)
        /\ frame_inputs = [i \in 1..k |-> [actions |-> <<>>, reasonings |-> <<>>]]
    /\ log_file = save_log_doc(recorder)
    /\ saved = [ok |-> TRUE, rec |-> recorder]
    /\ loaded = NotLoaded
    /\ since_actions = <<>>
    /\ since_reasonings = <<>>
    /\ last_op = "save_log"
    /\ prev_op = "init"
    /\ ops = 0
    /\ HAS_PIL \in BOOLEAN
    /\ has_ffmpeg \in BOOLEAN
    /\ disk \in SUBSET {recorder.frames[i].screenshot_path :
                            i \in 1..Len(recorder.frames)}
    /\ tmpdir = {}
    /\ warnings = <<>>
    /\ encoder_ran = FALSE
    /\ encoder_input = <<>>
    /\ cv_pc = "start"
    /\ cv_i = 0
    /\ cv_ret = NULL

\* compile_video returns value
CvReturn(value) ==
    /\ cv_ret' = value
    /\ cv_pc' = "done"

\* compile_video, the checks of its dependencies
CvCheck ==
    /\ cv_pc = "start"
    /\ IF ~HAS_PIL \/ ~has_ffmpeg
       THEN CvReturn(FALSE)
       ELSE /\ cv_pc' = "load"
            /\ UNCHANGED cv_ret
    /\ UNCHANGED <<recVars, loopVars, HAS_PIL, has_ffmpeg, disk, tmpdir,
                   warnings, encoder_ran, encoder_input, cv_i>>

\* compile_video, the log is loaded; a log without frames ends it
CvLoad ==
    /\ cv_pc = "load"
    /\ loaded' = [ok |-> TRUE, rec |-> load_log(log_file)]
    /\ IF Len(loaded'.rec.frames) = 0
       THEN /\ CvReturn(FALSE)
            /\ UNCHANGED cv_i
       ELSE /\ cv_pc' = "frames"
            /\ cv_i' = 0
            /\ UNCHANGED cv_ret
    /\ UNCHANGED <<recorder, log_file, since_actions, since_reasonings,
                   frame_inputs, saved, last_op, prev_op, ops, loopVars,
                   HAS_PIL, has_ffmpeg, disk, tmpdir, warnings, encoder_ran,
                   encoder_input>>

\* compile_video, one pass of "for i, frame in enumerate(recorder.frames)":
\* a frame without its file is warned about and skipped, any other is
\* annotated and saved under the name of its index
CvFrame ==
    /\ cv_pc = "frames"
    /\ cv_i < Len(loaded.rec.frames)
    /\ LET frame == loaded.rec.frames[cv_i + 1]
       IN  IF frame.screenshot_path \notin disk
           THEN /\ warnings' = Append(warnings, frame.screenshot_path)
                /\ UNCHANGED tmpdir
           ELSE /\ tmpdir' = tmpdir \cup {FrameName(cv_i)}
                /\ UNCHANGED warnings
    /\ cv_i' = cv_i + 1
    /\ UNCHANGED <<recVars, loopVars, HAS_PIL, has_ffmpeg, disk, encoder_ran,
                   encoder_input, cv_pc, cv_ret>>

\* compile_video, the encoder is run on frame_%05d.png; it fails when it
\* finds no first image, and it may fail for reasons of its own
CvEncode ==
    /\ cv_pc = "frames"
    /\ cv_i = Len(loaded.rec.frames)
    /\ encoder_ran' = TRUE
    /\ encoder_input' = EncoderInput(tmpdir, Len(loaded.rec.frames))
    /\ \E returncode \in (IF encoder_input' = <<>> THEN {1} ELSE {0, 1}) :
            CvReturn(returncode = 0)
    /\ UNCHANGED <<recVars, loopVars, HAS_PIL, has_ffmpeg, disk, tmpdir,
                   warnings, cv_i>>

CompileNext ==
    \/ CvCheck
    \/ CvLoad
    \/ CvFrame
    \/ CvEncode

SpecCompile == CompileInit /\ [][CompileNext]_vars

(* ---------------------------------------------------------------------- *)
(* Properties of the control loop                                          *)
(* ---------------------------------------------------------------------- *)

\* what the running (or last) loop instance did
IsEvent(i, kind) == events[i].e = kind
Count(kind) == Len(SelectSeq(events, LAMBDA ev : ev.e = kind))
Decisions == SelectSeq(events, LAMBDA ev : ev.e = "decision")

\* the oracle's response is a completion signal or requests no action
SignalsCompletion(ev) == ev.stop_reason = "end_turn" \/ ev.actions = 0

\* the loop instance got its initial observation and entered its loop
LoopEntered ==
    /\ Len(events) > 0
    /\ events[1].e = "capture"
    /\ events[1].out = "ok"

\* the result of the tool use of event ev is in the history, or, while its
\* round is still running, among the results collected for it
ResultFedBack(ev) ==
    LET q == ev.tool.id[1]
        k == ev.tool.id[2]
        block == [type |-> "tool_result", tool_use_id |-> ev.tool.id,
                  content |-> [json |-> ev.result]]
    IN  IF Len(messages) >= 2 * q + 1
        THEN /\ messages[2 * q + 1].role = "user"
             /\ Len(messages[2 * q + 1].content) = Decisions[q].actions
             /\ messages[2 * q + 1].content[k] = block
        ELSE /\ pc = "exec"
             /\ Len(tool_results) >= k
             /\ tool_results[k] = block

\* after the tool use of event i the loop went on: with the next tool use of
\* the batch, or with the next oracle query once the batch was done
LoopWentOn(i) ==
    LET q == events[i].tool.id[1]
        k == events[i].tool.id[2]
        n == Decisions[q].actions
    IN  IF i = Len(events)
        THEN /\ ~crashed
             /\ pc \in {"exec", "query"}
             /\ pc = "exec" => tool_idx = k + 1
             /\ pc = "query" => k = n
        ELSE IF k < n
        THEN /\ IsEvent(i + 1, "exec")
             /\ events[i + 1].tool.id = <<q, k + 1>>
        ELSE events[i + 1].e \in
                {"decision", "summary", "decision_error", "summary_error"}

\* C1: budget exhaustion - a loop instance that entered its loop and returned,
\* with no response of the oracle signalling completion or lacking actions,
\* made exactly max_iterations action-decision queries and then exactly one
\* summary query, and returned a non-empty handoff text; the summary query is
\* the last thing an instance does.
C1_BudgetExhaustion ==
    /\ (/\ pc = "returned"
        /\ LoopEntered
        /\ \A i \in 1..Len(events) :
                IsEvent(i, "decision") => ~SignalsCompletion(events[i]))
       => /\ Count("decision") = max_iterations
          /\ Count("summary") = 1
          /\ Truthy(ret)
    /\ \A i \in 1..Len(events) :
            IsEvent(i, "summary") =>
                /\ i = Len(events)
                /\ Count("decision") = max_iterations
                /\ pc \notin {"query", "exec"}

\* an instance with a budget of two rounds returned a handoff
C1_Witness ==
    /\ pc = "returned"
    /\ max_iterations = 2
    /\ Count("decision") = 2
    /\ Count("exec") >= 2
    /\ IsEvent(Len(events), "summary")
    /\ Truthy(ret)

\* C2: completion - a response that signals completion (stop reason end_turn)
\* or requests no action is the last thing its loop instance does: no action
\* is executed and no oracle query of either kind follows, and the instance
\* returns no handoff.
C2_Completion ==
    \A i \in 1..Len(events) :
        (IsEvent(i, "decision") /\ SignalsCompletion(events[i])) =>
            /\ i = Len(events)
            /\ pc \notin {"query", "exec"}
            /\ ret = NULL

\* the first response has stop reason end_turn and still requests actions:
\* one query, no action executed
C2_Witness ==
    /\ pc = "returned"
    /\ Len(events) = 2
    /\ IsEvent(2, "decision")
    /\ events[2].stop_reason = "end_turn"
    /\ events[2].actions > 0
    /\ Count("exec") = 0
    /\ ret = NULL

\* C3: a failed action is not fatal - when a call of the Remote Control Surface
\* fails, the result of that action has success = false, the loop goes on with
\* the next action of the batch or, after the last one, with the next oracle
\* query, and the result is part of the results message of its round.
C3_FailedActionNonFatal ==
    \A i \in 1..Len(events) :
        (IsEvent(i, "exec") /\ IsVm(events[i].call) /\ events[i].out # "ok") =>
            /\ "success" \in DOMAIN events[i].result
            /\ events[i].result.success = FALSE
            /\ LoopWentOn(i)
            /\ ResultFedBack(events[i])

\* the first action of a batch of two failed, the second was executed and the
\* oracle was queried again
C3_Witness ==
    \E i \in 1..Len(events) :
        /\ IsEvent(i, "exec")
        /\ events[i].tool.name = "click"
        /\ events[i].out = "VMError"
        /\ events[i].tool.id[2] = 1
        /\ Len(events) >= i + 2
        /\ IsEvent(i + 1, "exec")
        /\ IsEvent(i + 2, "decision")

\* C4: an action whose name is not in the vocabulary gets the failure result
\* "Unknown tool", which is fed back like any other result; it makes no call
\* of the Remote Control Surface, commits no frame and does not end the loop.
C4_UnknownTool ==
    \A i \in 1..Len(events) :
        (IsEvent(i, "exec") /\ events[i].tool.name \notin ToolNames) =>
            /\ events[i].result =
                [success |-> FALSE,
                 error |-> <<"Unknown tool", events[i].tool.name>>]
            /\ ~IsVm(events[i].call)
            /\ events[i].frames = 0
            /\ LoopWentOn(i)
            /\ ResultFedBack(events[i])

\* with a recorder attached, an unknown action was executed and the oracle
\* was queried again
C4_Witness ==
    /\ has_recorder
    /\ \E i \in 1..Len(events) :
        /\ IsEvent(i, "exec")
        /\ events[i].tool.name = "scroll"
        /\ Len(events) > i
        /\ IsEvent(i + 1, "decision")

\* the tool use lacks an argument its tool requires
MissesArgument(tool) ==
    \/ tool.name = "move_mouse" /\ ~({"x", "y"} \subseteq DOMAIN tool.input)
    \/ tool.name = "type_text" /\ "text" \notin DOMAIN tool.input
    \/ tool.name = "press_key" /\ "key" \notin DOMAIN tool.input
    \/ tool.name = "ask_user" /\ "question" \notin DOMAIN tool.input

\* C5: no error of an action leaves the control loop - whatever the action's
\* name and arguments and however its external call ends, execute_tool
\* returns a result with a success flag (false when the call failed or a
\* required argument is missing), and run_agent goes on with the next action;
\* an exception never leaves main after an action.
C5_ErrorsContained ==
    /\ \A i \in 1..Len(events) :
        IsEvent(i, "exec") =>
            /\ "success" \in DOMAIN events[i].result
            /\ events[i].result.success \in BOOLEAN
            /\ (events[i].out # "ok" \/ MissesArgument(events[i].tool))
                    => events[i].result.success = FALSE
            /\ LoopWentOn(i)
    /\ (crashed /\ Len(events) > 0) => ~IsEvent(Len(events), "exec")

\* a move_mouse without x got a failure result and the next action of the
\* batch was executed
C5_Witness ==
    \E i \in 1..Len(events) :
        /\ IsEvent(i, "exec")
        /\ events[i].tool.name = "move_mouse"
        /\ "x" \notin DOMAIN events[i].tool.input
        /\ events[i].result.success = FALSE
        /\ Len(events) > i
        /\ IsEvent(i + 1, "exec")

(* ---------------------------------------------------------------------- *)
(* Properties of the recorder                                              *)
(* ---------------------------------------------------------------------- *)

Last(s) == s[Len(s)]

\* C6: round-trip law - right after load_log, the loaded recorder has the task
\* and exactly the frames (same number, same order, same timestamp, screenshot
\* reference, actions and reasoning, None staying None) of the recorder that
\* save_log wrote to the file.
C6_RoundTrip ==
    last_op = "load_log" =>
        /\ loaded.rec.task = saved.rec.task
        /\ loaded.rec.frames = saved.rec.frames

\* a log of two frames, one with reasoning and one without, was saved and loaded
C6_Witness ==
    /\ last_op = "load_log"
    /\ Len(loaded.rec.frames) >= 2
    /\ loaded.rec.frames[1].reasoning # NULL
    /\ loaded.rec.frames[1].actions # <<>>
    /\ loaded.rec.frames[2].reasoning = NULL
    /\ loaded.rec.task # ""

\* C7: pending-state clearing - in the state right after an add_frame the pending
\* action list is empty and the pending reasoning is None, and when the call
\* before it was an add_frame too the frame just committed has no actions and
\* no reasoning.
C7_PendingCleared ==
    last_op = "add_frame" =>
        /\ recorder.pending_actions = <<>>
        /\ recorder.current_reasoning = NULL
        /\ prev_op = "add_frame" =>
            /\ Last(recorder.frames).actions = <<>>
            /\ Last(recorder.frames).reasoning = NULL

\* two add_frame calls in a row, the first of which committed pending content
C7_Witness ==
    /\ last_op = "add_frame"
    /\ prev_op = "add_frame"
    /\ Len(recorder.frames) >= 2
    /\ recorder.frames[Len(recorder.frames) - 1].actions # <<>>
    /\ recorder.frames[Len(recorder.frames) - 1].reasoning # NULL

\* C8: last-write-wins reasoning - the reasoning of every committed frame is the
\* text of the last set_reasoning call made since the previous add_frame, and
\* None when there was no such call.
C8_LastWriteWins ==
    \A i \in 1..Len(recorder.frames) :
        recorder.frames[i].reasoning =
            IF frame_inputs[i].reasonings = <<>> THEN NULL
            ELSE Last(frame_inputs[i].reasonings)

\* a frame committed after two set_reasoning calls with different texts, and
\* a frame committed after none
C8_Witness ==
    /\ \E i \in 1..Len(recorder.frames) :
        /\ Len(frame_inputs[i].reasonings) >= 2
        /\ frame_inputs[i].reasonings[1] # Last(frame_inputs[i].reasonings)
    /\ \E i \in 1..Len(recorder.frames) : frame_inputs[i].reasonings = <<>>

\* C9: action accumulation order - the actions of every committed frame are
\* exactly the descriptors passed to add_action since the previous add_frame,
\* in call order.
C9_ActionOrder ==
    \A i \in 1..Len(recorder.frames) :
        recorder.frames[i].actions = frame_inputs[i].actions

\* add_action A, add_action B, add_frame, after an earlier frame
C9_Witness ==
    \E i \in 2..Len(recorder.frames) :
        /\ recorder.frames[i].actions = <<"A", "B">>
        /\ recorder.frames[i - 1].actions # <<>>

\* C10: unique screenshot naming - the committed frames of a recorder have
\* pairwise distinct screenshot references.
C10_UniqueNames ==
    Cardinality({recorder.frames[i].screenshot_path :
                    i \in 1..Len(recorder.frames)}) = Len(recorder.frames)

\* more than 1000 frames, the last one committed at the clock reading of the
\* first, and two frames a day apart at the same time of day
C10_Witness ==
    /\ Len(recorder.frames) > 1000
    /\ Last(recorder.frames).timestamp = recorder.frames[1].timestamp
    /\ recorder.frames[1001].timestamp = recorder.frames[1].timestamp
    /\ \E i \in 1..Len(recorder.frames) :
        /\ recorder.frames[i].timestamp # recorder.frames[1].timestamp
        /\ StrfHMS(recorder.frames[i].timestamp)
                = StrfHMS(recorder.frames[1].timestamp)

\* the frames of before are the first frames of after, unchanged
FramesKept(before, after) ==
    /\ Len(after) >= Len(before)
    /\ \A i \in 1..Len(before) : after[i] = before[i]

\* C11: the frame sequence is append-only and committed frames are immutable -
\* every recorder call leaves each committed frame (timestamp, screenshot
\* reference, actions, reasoning) unchanged and at its index; add_frame appends
\* exactly one frame at the end, and set_reasoning, add_action, save_log and
\* load_log leave the frame sequence as it is.
C11_AppendOnly ==
    [][/\ FramesKept(recorder.frames, recorder'.frames)
       /\ (ops' = ops + 1 /\ last_op' = "add_frame")
            => Len(recorder'.frames) = Len(recorder.frames) + 1
       /\ (ops' = ops + 1 /\ last_op' # "add_frame")
            => recorder'.frames = recorder.frames]_vars

\* add_action was called after a commit that took pending actions along
C11_Witness ==
    /\ last_op = "add_action"
    /\ prev_op = "add_frame"
    /\ Len(recorder.frames) >= 2
    /\ Last(recorder.frames).actions # <<>>
    /\ recorder.pending_actions # <<>>

(* ---------------------------------------------------------------------- *)
(* Properties of the rounds and of the history                             *)
(* ---------------------------------------------------------------------- *)

\* the number of action-decision responses among the first i events
DecisionsUpTo(i) ==
    Len(SelectSeq(SubSeq(events, 1, i), LAMBDA ev : ev.e = "decision"))

\* event i is an oracle query of either kind, answered or failed
IsQuery(i) ==
    events[i].e \in {"decision", "summary", "decision_error", "summary_error"}

\* C12: the actions of a round are executed one after another in the order
\* of the response, nothing else happening in between; the results message of
\* the round holds exactly one result per requested action, in that order,
\* each with the request id of its action; and the next oracle query comes only
\* after all actions of the round were executed.
C12_RoundOrder ==
    \A i \in 1..Len(events) :
        (IsEvent(i, "decision") /\ ~SignalsCompletion(events[i])) =>
            LET q == DecisionsUpTo(i)
                n == events[i].actions
                asked == ToolUses(messages[2 * q].content)
                done == Min(n, Len(events) - i)
            IN  /\ Len(asked) = n
                /\ \A k \in 1..done :
                        /\ IsEvent(i + k, "exec")
                        /\ events[i + k].tool = asked[k]
                /\ Len(events) > i + n => IsQuery(i + n + 1)
                /\ IF Len(messages) >= 2 * q + 1
                   THEN /\ done = n
                        /\ messages[2 * q + 1].role = "user"
                        /\ Len(messages[2 * q + 1].content) = n
                        /\ \A k \in 1..n :
                            LET block == messages[2 * q + 1].content[k]
                            IN  /\ block.type = "tool_result"
                                /\ block.tool_use_id = asked[k].id
                                /\ block = ToolResultBlock(events[i + k].tool,
                                                           events[i + k].result)
                   ELSE /\ pc = "exec"
                        /\ Len(events) = i + done
                        /\ tool_idx = done + 1
                        /\ Len(tool_results) = done
                        /\ \A k \in 1..done :
                                tool_results[k].tool_use_id = asked[k].id

\* a round of two different actions was executed and the oracle queried again
C12_Witness ==
    /\ Count("decision") >= 2
    /\ Len(messages) >= 3
    /\ Len(messages[3].content) = 2
    /\ events[3].tool.name # events[4].tool.name
    /\ events[3].out # "ok"

\* the exec events of the round that decision event i opened, once complete
RoundExecs(i) == SubSeq(events, i + 1, i + events[i].actions)

\* history is what the code builds from the initial observation and the
\* rounds whose decision events are at the indices in rounds (in order)
IsHistoryOf(history, rounds) ==
    /\ Len(history) = 2 * Len(rounds) + 1
    /\ history[1].role = "user"
    /\ Len(history[1].content) = 2
    /\ history[1].content[1].type = "image"
    /\ history[1].content[2] =
            TextBlock(InitialText(events[1].task, events[1].handoff_context))
    /\ \A j \in 1..Len(rounds) :
        LET execs == RoundExecs(rounds[j])
        IN  /\ history[2 * j].role = "assistant"
            /\ ToolUses(history[2 * j].content)
                    = [k \in 1..Len(execs) |-> execs[k].tool]
            /\ history[2 * j + 1] =
                    [role |-> "user",
                     content |-> [k \in 1..Len(execs) |->
                        ToolResultBlock(execs[k].tool, execs[k].result)]]

\* the indices of the decision events before event i
RoundsBefore(i) ==
    LET idx == {j \in 1..(i - 1) : IsEvent(j, "decision")}
    IN  [k \in 1..Cardinality(idx) |->
            CHOOSE j \in idx : Cardinality({h \in idx : h < j}) = k - 1]

\* C13: full history - the k-th action-decision query of a loop instance gets
\* the initial observation message followed by the assistant response and the
\* results message of each of the k-1 earlier rounds, in order; what a query
\* got stays the beginning of the history (it is only extended at its end,
\* never cut or rewritten); and the summary query gets the history of all
\* rounds followed by the summary request.
C13_FullHistory ==
    /\ [](\A i \in 1..Len(events) :
            /\ IsEvent(i, "decision") =>
                /\ IsHistoryOf(events[i].history, RoundsBefore(i))
                /\ Len(messages) >= Len(events[i].history)
                /\ events[i].history
                        = SubSeq(messages, 1, Len(events[i].history))
            /\ IsEvent(i, "summary") =>
                /\ Len(events[i].history) = 2 * max_iterations + 2
                /\ IsHistoryOf(SubSeq(events[i].history, 1, 2 * max_iterations + 1),
                               RoundsBefore(i))
                /\ Last(events[i].history) = HandoffRequest
                /\ SubSeq(events[i].history, 1, 2 * max_iterations + 1) = messages)
    /\ [][instances' = instances => FramesKept(messages, messages')]_vars

\* the summary query of an instance that ran two rounds
C13_Witness ==
    /\ Len(events) > 0
    /\ IsEvent(Len(events), "summary")
    /\ Len(Last(events).history) = 6
    /\ Count("decision") = 2

(* ---------------------------------------------------------------------- *)
(* Properties of the recording made by the loop                            *)
(* ---------------------------------------------------------------------- *)

\* event ev is a screen capture: the initial one or a screenshot action
IsCapture(ev) ==
    \/ ev.e = "capture"
    \/ ev.e = "exec" /\ ev.call = "vm.screenshot"

\* C14: capture and recording are coupled - with a recorder attached, the
\* number of committed frames equals the number of screen captures that
\* returned so far (initial observations and screenshot actions alike), each
\* screenshot action that returned committed exactly one frame, and a step
\* in which a capture failed leaves the recorder, its frames and its pending
\* state, as it was.
C14_CaptureCommits ==
    /\ [](has_recorder =>
            /\ Len(recorder.frames) = captures
            /\ \A i \in 1..Len(events) :
                    (IsEvent(i, "exec") /\ events[i].call = "vm.screenshot") =>
                        events[i].frames = IF events[i].out = "ok" THEN 1 ELSE 0)
    /\ [][(/\ has_recorder
           /\ events' # events
           /\ IsCapture(Last(events'))
           /\ Last(events').out # "ok") => recorder' = recorder]_vars

\* with a recorder attached and reasoning pending, a screenshot action
\* failed and the next one returned
C14_Witness ==
    /\ has_recorder
    /\ captures = 2
    /\ Len(events) >= 4
    /\ IsEvent(3, "exec")
    /\ events[3].call = "vm.screenshot"
    /\ events[3].out = "VMError"
    /\ IsEvent(4, "exec")
    /\ events[4].call = "vm.screenshot"
    /\ events[4].out = "ok"
    /\ Last(recorder.frames).reasoning # NULL

\* how often d occurs in the sequence s
Occurrences(s, d) == Cardinality({k \in 1..Len(s) : s[k] = d})

\* C15: the actions of a committed frame are only descriptors of actions that
\* were executed, with success, between the previous frame and this one - no
\* descriptor occurs in a frame more often than it was executed in that
\* interval, so a failed or unrecognized action is in no frame.
C15_OnlyExecuted ==
    has_recorder =>
        \A i \in 1..Len(recorder.frames) :
            \A k \in 1..Len(recorder.frames[i].actions) :
                LET d == recorder.frames[i].actions[k]
                IN  Occurrences(recorder.frames[i].actions, d)
                        <= Occurrences(frame_done[i], d)

(* ---------------------------------------------------------------------- *)
(* Properties of main                                                      *)
(* ---------------------------------------------------------------------- *)

\* the loop instance that just returned made a summary query
ReturnedSummary ==
    /\ pc = "returned"
    /\ Len(events) > 0
    /\ IsEvent(Len(events), "summary")

\* C16: handoff resumption - an instance returns a handoff text exactly when
\* it made a summary query; main, in either mode, then calls run_agent again
\* with the same task and exactly that text, and otherwise ends the chain (the
\* one-shot mode ends, the interactive mode prompts again). The instance so
\* started counts its rounds from zero and, once its initial capture returned,
\* has a history of one message: the new screenshot and a prompt that holds
\* the task and the handoff text.
C16_HandoffResumption ==
    /\ [](pc = "returned" => (Truthy(ret) <=> ReturnedSummary))
    /\ [][pc = "returned" =>
            IF Truthy(ret)
            THEN /\ pc' = "call"
                 /\ handoff_context' = ret
                 /\ task' = task
            ELSE pc' = IF mode = "task" THEN "finally" ELSE "read_task"]_vars
    /\ [][(pc = "call" /\ Truthy(ret)) =>
            /\ instances' = instances + 1
            /\ iteration' = 0
            /\ queries' = 0
            /\ max_iterations' = max_iterations
            /\ events[1].task = task
            /\ handoff_context = ret
            /\ pc' = "query" =>
                /\ captures' = captures + 1
                /\ messages' = <<[role |-> "user",
                        content |-> <<ImageBlock(captures'),
                            TextBlock([task |-> task, handoff |-> ret])>>]>>]_vars

\* in interactive mode, a second instance started from a handoff and ran a round
C16_Witness ==
    /\ mode = "interactive"
    /\ instances = 2
    /\ Truthy(handoff_context)
    /\ LoopEntered
    /\ events[1].handoff_context = handoff_context
    /\ Count("exec") >= 1

\* C17: graceful interrupt - once the interactive prompt was interrupted, no
\* loop instance is started, no oracle query made and no action executed;
\* main goes through its finally clause, where the log is saved first (when
\* a recorder holds at least one frame, and only then) and the Remote Control
\* Surface is disconnected after it; the process ends without an error.
C17_GracefulInterrupt ==
    /\ [](interrupted =>
            /\ mode = "interactive"
            /\ ~crashed
            /\ pc \in {"finally", "disconnect", "done"}
            /\ pc = "finally" => connected /\ log_file = NoFile
            /\ pc \in {"disconnect", "done"} =>
                IF has_recorder /\ Len(recorder.frames) > 0
                THEN /\ log_file = save_log_doc(recorder)
                     /\ recorder.task = "interactive session"
                ELSE log_file = NoFile
            /\ pc = "disconnect" => connected
            /\ pc = "done" => ~connected)
    /\ [][interrupted =>
            /\ instances' = instances
            /\ queries' = queries
            /\ events' = events
            /\ captures' = captures
            /\ messages' = messages]_vars

\* the prompt was interrupted after a task had run with a recorder attached:
\* the log of its frames is on disk and the connection is closed
C17_Witness ==
    /\ interrupted
    /\ pc = "done"
    /\ instances >= 1
    /\ Count("exec") >= 1
    /\ Len(recorder.frames) >= 2
    /\ log_file # NoFile
    /\ ~connected

\* the last thing the loop instance did was an oracle call that raised
OracleFailed ==
    /\ Len(events) > 0
    /\ Last(events).e \in {"decision_error", "summary_error"}

\* C18: an oracle transport error is fatal for the run - after an oracle call
\* raised (an action-decision query or the summary query) the exception leaves
\* main: there is no further oracle query (the failed one is not repeated), no
\* action, no value returned by the instance and no new instance; main's
\* finally clause still saves the frames committed so far and disconnects
\* the Remote Control Surface before the process ends.
C18_OracleErrorFatal ==
    /\ [](OracleFailed =>
            /\ crashed
            /\ pc \in {"finally", "disconnect", "done"}
            /\ pc \in {"disconnect", "done"} =>
                IF has_recorder /\ Len(recorder.frames) > 0
                THEN /\ log_file = save_log_doc(recorder)
                     /\ Len(log_file.v["frames"].v) = captures
                ELSE log_file = NoFile
            /\ pc = "disconnect" => connected
            /\ pc = "done" => ~connected)
    /\ [][OracleFailed =>
            /\ events' = events
            /\ queries' = queries
            /\ instances' = instances
            /\ ret' = ret
            /\ handoff_context' = handoff_context
            /\ messages' = messages
            /\ captures' = captures
            /\ recorder'.frames = recorder.frames]_vars

\* the second action-decision query raised after a round with a screenshot:
\* both frames are in the saved log and the connection is closed
C18_Witness ==
    /\ OracleFailed
    /\ Last(events).e = "decision_error"
    /\ Count("decision") = 1
    /\ pc = "done"
    /\ log_file # NoFile
    /\ Len(log_file.v["frames"].v) = 2
    /\ ~connected

(* ---------------------------------------------------------------------- *)
(* Properties of compile_video                                             *)
(* ---------------------------------------------------------------------- *)

\* the elements of the sequence s
Range(s) == {s[i] : i \in 1..Len(s)}

\* C19: missing screenshots degrade gracefully - load_log returns the frames
\* of the log whether or not their screenshot files exist, and a run of
\* compile_video that reached its frames goes through all of them and runs
\* the encoder; at its end every frame without its file was warned about and
\* has no annotated image, and every frame with its file has one annotated
\* image, which is among the images the encoder read.
C19_MissingSkipped ==
    /\ cv_pc \in {"frames", "done"} /\ loaded # NotLoaded
            => loaded.rec.frames = recorder.frames
    /\ (cv_pc = "done" /\ loaded # NotLoaded /\ Len(loaded.rec.frames) > 0) =>
            /\ encoder_ran
            /\ cv_i = Len(loaded.rec.frames)
            /\ \A i \in 1..Len(loaded.rec.frames) :
                IF loaded.rec.frames[i].screenshot_path \in disk
                THEN /\ FrameName(i - 1) \in tmpdir
                     /\ FrameName(i - 1) \in Range(encoder_input)
                ELSE /\ loaded.rec.frames[i].screenshot_path \in Range(warnings)
                     /\ FrameName(i - 1) \notin tmpdir

(* ---------------------------------------------------------------------- *)
(* The budget boundary                                                     *)
(* ---------------------------------------------------------------------- *)

\* the number of actions the responses so far asked to execute
ActionsAsked ==
    LET RECURSIVE Sum(_)
        Sum(n) == IF n = 0 THEN 0
                  ELSE Sum(n - 1) + (IF SignalsCompletion(Decisions[n]) THEN 0
                                     ELSE Decisions[n].actions)
    IN  Sum(Len(Decisions))

\* C20: budget boundary - a loop instance makes at most max_iterations
\* action-decision queries (failed ones included); a summary query is made
\* only after max_iterations rounds that each requested actions, without a
\* completion signal, and executed them all; and when a response signals
\* completion or requests no action, the B-th one included, it is the last
\* query of the instance: no summary query follows and the instance returns
\* no handoff.
C20_BudgetBoundary ==
    /\ Count("decision") + Count("decision_error") <= max_iterations
    /\ \A i \in 1..Len(events) :
        /\ events[i].e \in {"summary", "summary_error"} =>
            /\ Count("decision") = max_iterations
            /\ Count("decision_error") = 0
            /\ \A q \in 1..Len(Decisions) :
                    ~SignalsCompletion(Decisions[q]) /\ Decisions[q].actions > 0
            /\ Count("exec") = ActionsAsked
            /\ Len(messages) = 2 * max_iterations + 1
        /\ (IsEvent(i, "decision") /\ SignalsCompletion(events[i])) =>
            /\ Count("summary") + Count("summary_error") = 0
            /\ i = Len(events)
            /\ pc # "query"
            /\ ret = NULL

\* with a budget of two, the second response signalled completion after a
\* round of actions: the instance returned without a summary query
C20_Witness ==
    /\ max_iterations = 2
    /\ Count("decision") = 2
    /\ Count("exec") >= 1
    /\ SignalsCompletion(Decisions[2])
    /\ pc = "returned"
    /\ ret = NULL

(* ---------------------------------------------------------------------- *)
(* The wait action                                                         *)
(* ---------------------------------------------------------------------- *)

\* C21: the wait action never sleeps outside [0, 30] seconds - whatever
\* seconds the oracle asks for, the time slept and the time reported in the
\* result are the same number of 0..30: 0 for a negative request, 30 for a
\* request above 30, the request itself in between, and 1 when seconds is
\* absent.
C21_WaitClamped ==
    \A i \in 1..Len(events) :
        (IsEvent(i, "exec") /\ events[i].tool.name = "wait") =>
            LET args == events[i].tool.input
                secs == events[i].slept
            IN  /\ events[i].call = "time.sleep"
                /\ events[i].result = [success |-> TRUE, waited |-> secs]
                /\ secs \in 0..30
                /\ "seconds" \notin DOMAIN args => secs = 1
                /\ "seconds" \in DOMAIN args =>
                    /\ args["seconds"] < 0 => secs = 0
                    /\ args["seconds"] > 30 => secs = 30
                    /\ args["seconds"] \in 0..30 => secs = args["seconds"]

\* one round asked for a wait of -5 seconds and a wait without seconds
C21_Witness ==
    /\ Len(events) >= 4
    /\ IsEvent(3, "exec")
    /\ events[3].tool.input = [seconds |-> -5]
    /\ events[3].slept = 0
    /\ IsEvent(4, "exec")
    /\ events[4].tool.input = EmptyDict
    /\ events[4].slept = 1

\* an event of the log without its count of recorded frames, which only a
\* run with a recorder can have
Unrecorded(ev) == IF ev.e = "exec" THEN [ev EXCEPT !.frames = 0] ELSE ev

RECURSIVE FrameActions(_, _)
FrameActions(frames, n) ==
    IF n = 0 THEN <<>>
    ELSE FrameActions(frames, n - 1) \o frames[n].actions

\* every descriptor passed to add_action so far, in call order
ActionsPassed ==
    FrameActions(frame_inputs, Len(frame_inputs)) \o since_actions

\* C23: recorder conservation - in every reachable state of one recorder
\* the actions lists of the committed frames, concatenated in frame order
\* and followed by the pending action list, are the descriptors passed to
\* add_action so far in call order: none is in two frames and none is
\* dropped by a commit.
C23_Conservation ==
    FrameActions(recorder.frames, Len(recorder.frames))
        \o recorder.pending_actions = ActionsPassed

\* two frames with actions, a frame without any between or around them,
\* and an action pending after the last commit
C23_Witness ==
    /\ recorder.pending_actions # <<>>
    /\ \E i, j \in 1..Len(recorder.frames) :
            /\ i < j
            /\ recorder.frames[i].actions # <<>>
            /\ recorder.frames[j].actions # <<>>
    /\ \E i \in 1..Len(recorder.frames) : recorder.frames[i].actions = <<>>

\* C24: nothing recorded is lost at the end of a run - every action the loop
\* records and every reasoning text it sets while a recorder is attached is
\* in some frame of the log saved when the run ends, those that come after
\* the last screenshot included. The saved log holds the committed frames
\* and nothing else (save_log), and what was recorded is either in a
\* committed frame or still pending (C23), so when the run has ended the
\* frames are in the log file and no action and no reasoning is pending.
C24_NothingLost ==
    (pc = "done" /\ has_recorder) =>
        /\ Len(recorder.frames) > 0 => log_file = save_log_doc(recorder)
        /\ recorder.pending_actions = <<>>
        /\ recorder.current_reasoning = NULL

\* C25: a loop instance returns without Handoff Context only after the
\* oracle signalled completion - an instance that has returned None has
\* issued an oracle query whose response had stop reason end_turn or
\* requested no action, also when its initial screen capture failed, so a
\* task resumed from a handoff is never ended without the oracle being
\* consulted.
C25_OnlyOracleEnds ==
    (pc = "returned" /\ ret = NULL) =>
        \E i \in 1..Len(events) :
            IsEvent(i, "decision") /\ SignalsCompletion(events[i])


====
